---- MODULE Spec2Model ----
(***************************************************************************)
(* A model of the JSON Schema normalizer of fences                         *)
(* (src/fences/json_schema/normlaize.py).                                  *)
(*                                                                         *)
(* Python objects live in a heap: dicts (insertion ordered) and lists are  *)
(* heap cells addressed by reference, so that aliasing and in-place        *)
(* mutation behave as in the source.  The interpreter state is             *)
(* st = [heap, err]; a raised exception is recorded in st.err and ends the *)
(* running call.                                                           *)
(***************************************************************************)
EXTENDS Integers, Sequences, FiniteSets, TLC

(***************************************************************************)
(* Bounds                                                                  *)
(***************************************************************************)
\* the interpreter's recursion limit (sys.getrecursionlimit, scaled down)
MaxDepth == 8
\* longest anyOf / allOf / oneOf list of the generated input families
MaxLen == 2

(***************************************************************************)
(* Values                                                                  *)
(***************************************************************************)
None == [t |-> "none"]
Bool(b) == [t |-> "bool", b |-> b]
Str(s) == [t |-> "str", s |-> s]
Num(n) == [t |-> "num", n |-> n]
\* a list of strings that the program never mutates (type, required, enum)
Strs(l) == [t |-> "strs", l |-> l]
\* a parsed JSON pointer "#/seg1/seg2": the sequence of its segments
Ptr(p) == [t |-> "ptr", p |-> p]
Ref(a) == [t |-> "ref", a |-> a]

PyTrue == Bool(TRUE)
PyFalse == Bool(FALSE)

IsNone(v) == v.t = "none"
IsRef(v) == v.t = "ref"
IsTrue(v) == v.t = "bool" /\ v.b
IsFalse(v) == v.t = "bool" /\ ~v.b

(***************************************************************************)
(* Heap                                                                    *)
(***************************************************************************)
DictCell(ks, m) == [k |-> "dict", ks |-> ks, m |-> m]
ListCell(l) == [k |-> "list", l |-> l]
EmptyDict == DictCell(<<>>, <<>>)

Ok(st) == st.err = ""
Ret(st, v) == [st |-> st, v |-> v]
Raise(st, e) == [st |-> [st EXCEPT !.err = e], v |-> None]

\* evaluates a value in full at the place it is built
Forced(x) == IF x = x THEN x ELSE x

Alloc(st, cell) == Ret([st EXCEPT !.heap = Append(@, Forced(cell))], Ref(Len(st.heap) + 1))

IsDict(st, v) == IsRef(v) /\ st.heap[v.a].k = "dict"
IsList(st, v) == IsRef(v) /\ st.heap[v.a].k = "list"

Keys(st, v) == st.heap[v.a].ks
Has(st, v, key) == key \in DOMAIN st.heap[v.a].m
Get(st, v, key) == st.heap[v.a].m[key]
GetOr(st, v, key, default) == IF Has(st, v, key) THEN Get(st, v, key) ELSE default

\* d[key] = val
SetItem(st, v, key, val) ==
    IF Has(st, v, key)
    THEN [st EXCEPT !.heap[v.a].m[key] = val]
    ELSE [st EXCEPT !.heap[v.a] =
            DictCell(Append(@.ks, key), (key :> val) @@ @.m)]

\* del d[key]
DelItem(st, v, key) ==
    [st EXCEPT !.heap[v.a] =
        DictCell(SelectSeq(@.ks, LAMBDA x : x # key),
                 [x \in DOMAIN @.m \ {key} |-> @.m[x]])]

\* d.copy()
Copy(st, v) == Alloc(st, st.heap[v.a])

Items(st, v) == st.heap[v.a].l
ListLen(st, v) == Len(st.heap[v.a].l)
ListGet(st, v, i) == st.heap[v.a].l[i]
\* l[i] = val
ListSet(st, v, i, val) == [st EXCEPT !.heap[v.a].l[i] = val]
\* l += more
ListExtend(st, v, more) == [st EXCEPT !.heap[v.a].l = @ \o more]

Repeat(x, n) == [i \in 1..n |-> x]

(***************************************************************************)
(* Schema literals                                                         *)
(*                                                                         *)
(* A scalar literal is its value.  A dict or list literal is the sequence  *)
(* of the cells it is made of, the children before the parent, with        *)
(* addresses relative to the start of the sequence.                        *)
(***************************************************************************)
Cells(lit) == IF lit.t = "cells" THEN lit.cells ELSE <<>>

\* the value of a literal whose cells start after address off
Root(lit, off) == IF lit.t = "cells" THEN Ref(off + Len(lit.cells)) ELSE lit

Shift(v, off) == IF v.t = "ref" THEN Ref(v.a + off) ELSE v

ShiftCell(cell, off) ==
    IF cell.k = "dict"
    THEN DictCell(cell.ks, [key \in DOMAIN cell.m |-> Shift(cell.m[key], off)])
    ELSE ListCell([i \in DOMAIN cell.l |-> Shift(cell.l[i], off)])

\* the number of cells of lits[1..i-1]
RECURSIVE Before(_, _)
Before(lits, i) == IF i = 1 THEN 0 ELSE Before(lits, i - 1) + Len(Cells(lits[i - 1]))

\* the cells of lits, one literal after the other
Flat(lits) ==
    [p \in 1..Before(lits, Len(lits) + 1) |->
        LET i == CHOOSE i \in 1..Len(lits) : Before(lits, i) < p /\ p <= Before(lits, i + 1)
        IN  ShiftCell(Cells(lits[i])[p - Before(lits, i)], Before(lits, i))]

\* the cells of the children followed by the parent cell
Lit(lits, cell) == Forced([t |-> "cells", cells |-> Append(Flat(lits), cell)])

\* {k1: v1, ...}: a sequence of <<key, literal>> pairs
D(pairs) ==
    IF pairs = <<>> THEN [t |-> "cells", cells |-> <<EmptyDict>>]
    ELSE LET lits == [i \in DOMAIN pairs |-> pairs[i][2]]
             ks == [i \in DOMAIN pairs |-> pairs[i][1]]
         IN  Lit(lits, DictCell(ks, [key \in {ks[i] : i \in DOMAIN ks} |->
                 LET i == CHOOSE i \in DOMAIN ks : ks[i] = key
                 IN  Root(lits[i], Before(lits, i))]))

\* [v1, ...]
L(lits) ==
    IF lits = <<>> THEN [t |-> "cells", cells |-> <<ListCell(<<>>)>>]
    ELSE Lit(lits, ListCell([i \in DOMAIN lits |-> Root(lits[i], Before(lits, i))]))

\* builds the literal in the heap
Load(st, lit) ==
    Ret([st EXCEPT !.heap = Forced(@ \o [i \in DOMAIN Cells(lit) |->
                                            ShiftCell(Cells(lit)[i], Len(st.heap))])],
        Root(lit, Len(st.heap)))

(***************************************************************************)
(* json.dumps                                                              *)
(***************************************************************************)
RECURSIVE JoinStrs(_, _)
JoinStrs(l, i) ==
    IF i > Len(l) THEN ""
    ELSE (IF i > 1 THEN ", " ELSE "") \o "\"" \o l[i] \o "\"" \o JoinStrs(l, i + 1)

RECURSIVE JoinPtr(_, _)
JoinPtr(p, i) == IF i > Len(p) THEN "" ELSE "/" \o p[i] \o JoinPtr(p, i + 1)

\* the items of a dict or list, "key": in front of each when ks is not empty
RECURSIVE JoinDumps(_, _, _)
JoinDumps(ks, ds, i) ==
    IF i > Len(ds) THEN ""
    ELSE (IF i > 1 THEN ", " ELSE "")
         \o (IF ks = <<>> THEN "" ELSE "\"" \o ks[i] \o "\": ")
         \o ds[i].s \o JoinDumps(ks, ds, i + 1)

\* A result [ok, s]: ok is FALSE when a container is met again on the path
\* from the root (ValueError: Circular reference detected)
RECURSIVE Dumps(_, _, _)
Dumps(st, v, seen) ==
    CASE v.t = "none" -> [ok |-> TRUE, s |-> "null"]
      [] v.t = "bool" -> [ok |-> TRUE, s |-> IF v.b THEN "true" ELSE "false"]
      [] v.t = "str" -> [ok |-> TRUE, s |-> "\"" \o v.s \o "\""]
      [] v.t = "num" -> [ok |-> TRUE, s |-> ToString(v.n)]
      [] v.t = "strs" -> [ok |-> TRUE, s |-> "[" \o JoinStrs(v.l, 1) \o "]"]
      [] v.t = "ptr" -> [ok |-> TRUE, s |-> "\"#" \o JoinPtr(v.p, 1) \o "\""]
      [] v.t = "ref" ->
            IF v.a \in seen THEN [ok |-> FALSE, s |-> ""]
            ELSE LET cell == st.heap[v.a]
                     dict == cell.k = "dict"
                     children == IF dict THEN [i \in DOMAIN cell.ks |-> cell.m[cell.ks[i]]]
                                 ELSE cell.l
                     ds == Forced([i \in DOMAIN children |->
                                      Dumps(st, children[i], seen \cup {v.a})])
                 IN  IF \E i \in DOMAIN ds : ~ds[i].ok THEN [ok |-> FALSE, s |-> ""]
                     ELSE IF dict
                     THEN [ok |-> TRUE, s |-> "{" \o JoinDumps(cell.ks, ds, 1) \o "}"]
                     ELSE [ok |-> TRUE, s |-> "[" \o JoinDumps(<<>>, ds, 1) \o "]"]

(***************************************************************************)
(* Module constants (lines 10-11)                                          *)
(***************************************************************************)
\* the heap after the module is imported: NORM_FALSE and NORM_TRUE exist
ModuleHeap ==
    LET f == Load([heap |-> <<>>, err |-> ""],
                  D(<< <<"anyOf", L(<< D(<< <<"type", Strs(<<>>)>> >>) >>)>> >>))
        t == Load(f.st, D(<< <<"anyOf", L(<< D(<<>>) >>)>> >>))
    IN  [st |-> t.st, false |-> f.v, true |-> t.v]

NORM_FALSE == ModuleHeap.false
NORM_TRUE == ModuleHeap.true

(***************************************************************************)
(* Resolver and JsonPointer                                                *)
(***************************************************************************)
\* pointer.lookup(root): follows the segments through nested dicts
RECURSIVE Lookup(_, _, _, _)
Lookup(st, cur, p, i) ==
    IF i > Len(p) THEN Ret(st, cur)
    ELSE IF IsDict(st, cur) /\ Has(st, cur, p[i])
    THEN Lookup(st, Get(st, cur, p[i]), p, i + 1)
    ELSE Raise(st, "UnresolvedRef")

\* Resolver.resolve: the resolver holds the root schema it was built with
resolve(st, root, pointer) == Lookup(st, root, pointer.p, 1)

(***************************************************************************)
(* invert (lines 28-29)                                                    *)
(***************************************************************************)
invert(schema) == schema

(***************************************************************************)
(* Keyword merge algebra (lines 32-56)                                     *)
(***************************************************************************)
Max(a, b) == IF a >= b THEN a ELSE b
Min(a, b) == IF a <= b THEN a ELSE b
Abs(a) == IF a < 0 THEN -a ELSE a

RECURSIVE Gcd(_, _)
Gcd(a, b) == IF b = 0 THEN Abs(a) ELSE Gcd(b, a % b)

InSeq(x, l) == \E i \in 1..Len(l) : l[i] = x

\* list(set(l)): each element once
FirstOccurrences(l) ==
    SelectSeq([i \in 1..Len(l) |-> i], LAMBDA i : \A j \in 1..(i - 1) : l[j] # l[i])
ListOfSet(l) == [k \in 1..Len(FirstOccurrences(l)) |-> l[FirstOccurrences(l)[k]]]

AsList(a) == IF a.t = "str" THEN <<a.s>> ELSE a.l

\* a str is wrapped into a one-element list; list(set(a) & set(b))
_merge_type(a, b) ==
    Strs(ListOfSet(SelectSeq(AsList(a), LAMBDA x : InSeq(x, AsList(b)))))

\* {'allOf': l}
AllOfDict(l) == Alloc(l.st, DictCell(<<"allOf">>, [key \in {"allOf"} |-> l.v]))

\* {'allOf': [a, b]}
AllOfPair(st, a, b) == AllOfDict(Alloc(st, ListCell(<<a, b>>)))

\* d[key] = r.v, where r is the outcome of the right-hand side
Assign(r, d, key) == IF Ok(r.st) THEN SetItem(r.st, d, key, r.v) ELSE r.st

SimpleKeys == {"required", "multipleOf", "items", "minimum", "maximum", "type",
               "minItems", "pattern", "minLength", "maxLength", "const", "enum",
               "format", "dependentRequired", "deprecated"}

_simple_mergers(st, key, a, b) ==
    CASE key = "required" -> Ret(st, Strs(ListOfSet(a.l \o b.l)))
      [] key = "multipleOf" -> Ret(st, Num(Abs(a.n * b.n) \div Gcd(a.n, b.n)))
      [] key = "items" -> AllOfPair(st, a, b)
      [] key = "minimum" -> Ret(st, Num(Max(a.n, b.n)))
      [] key = "maximum" -> Ret(st, Num(Min(a.n, b.n)))
      [] key = "type" -> Ret(st, _merge_type(a, b))
      [] key = "minItems" -> Ret(st, Num(Max(a.n, b.n)))
      [] key = "pattern" -> Ret(st, Str("(" \o a.s \o ")&(" \o b.s \o ")"))
      [] key = "minLength" -> Ret(st, Num(Max(a.n, b.n)))
      [] key = "maxLength" -> Ret(st, Num(Min(a.n, b.n)))
      [] key = "const" -> Ret(st, a)
      [] key = "enum" -> Ret(st, Strs(a.l \o b.l))
      [] key = "format" -> Ret(st, a)
      [] key = "dependentRequired" -> Ret(st, a)
      [] key = "deprecated" -> Ret(st, IF a.b THEN a ELSE b)

(***************************************************************************)
(* _merge_properties (lines 59-89)                                         *)
(***************************************************************************)
PropsToAddHas(st, to_add, name) ==
    Has(st, to_add, "properties") /\ Has(st, Get(st, to_add, "properties"), name)

\* the value of props_result[property_name] after the first loop's iteration
MergedResultProperty(st, schema, to_add, additional_to_add, name) ==
    IF PropsToAddHas(st, to_add, name)
    THEN AllOfPair(st, schema, Get(st, Get(st, to_add, "properties"), name))
    ELSE IF IsNone(additional_to_add) THEN Ret(st, schema)
    ELSE AllOfPair(st, schema, additional_to_add)

\* for property_name, schema in props_result.items()
RECURSIVE MergePropsResultLoop(_, _, _, _, _)
MergePropsResultLoop(st, props_result, to_add, additional_to_add, i) ==
    IF i > Len(Keys(st, props_result)) THEN st
    ELSE MergePropsResultLoop(
             Assign(MergedResultProperty(st, Get(st, props_result, Keys(st, props_result)[i]),
                                         to_add, additional_to_add,
                                         Keys(st, props_result)[i]),
                    props_result, Keys(st, props_result)[i]),
             props_result, to_add, additional_to_add, i + 1)

\* the value of a property that only to_add has
AddedProperty(st, schema, additional_result) ==
    IF IsNone(additional_result) THEN Ret(st, schema)
    ELSE AllOfPair(st, schema, additional_result)

\* for property_name, schema in props_to_add.items()
RECURSIVE MergePropsToAddLoop(_, _, _, _, _)
MergePropsToAddLoop(st, props_result, props_to_add, additional_result, i) ==
    IF i > Len(Keys(st, props_to_add)) THEN st
    ELSE MergePropsToAddLoop(
             IF Has(st, props_result, Keys(st, props_to_add)[i]) THEN st
             ELSE Assign(AddedProperty(st, Get(st, props_to_add, Keys(st, props_to_add)[i]),
                                       additional_result),
                         props_result, Keys(st, props_to_add)[i]),
             props_result, props_to_add, additional_result, i + 1)

\* both loops over props_result, the outcome of result.get('properties', {})
MergePropsLoops(props_result, result, to_add) ==
    Ret(IF Has(props_result.st, to_add, "properties")
        THEN MergePropsToAddLoop(
                 MergePropsResultLoop(props_result.st, props_result.v, to_add,
                     GetOr(props_result.st, to_add, "additionalProperties", None), 1),
                 props_result.v, Get(props_result.st, to_add, "properties"),
                 GetOr(props_result.st, result, "additionalProperties", None), 1)
        ELSE MergePropsResultLoop(props_result.st, props_result.v, to_add,
                 GetOr(props_result.st, to_add, "additionalProperties", None), 1),
        props_result.v)

_merge_properties(st, result, to_add) ==
    MergePropsLoops(IF Has(st, result, "properties")
                    THEN Ret(st, Get(st, result, "properties"))
                    ELSE Alloc(st, EmptyDict),
                    result, to_add)

(***************************************************************************)
(* _merge_prefix_items (lines 92-117)                                      *)
(***************************************************************************)
\* schema.get('prefixItems', [])
PrefixItemsOf(st, schema) ==
    IF Has(st, schema, "prefixItems") THEN Ret(st, Get(st, schema, "prefixItems"))
    ELSE Alloc(st, ListCell(<<>>))

\* the shorter list += [its schema's items] * (the difference of the lengths)
PadPrefixItems(st, a, b, items_a, items_b) ==
    IF ListLen(st, a) > ListLen(st, b)
    THEN ListExtend(st, b, Repeat(items_b, ListLen(st, a) - ListLen(st, b)))
    ELSE ListExtend(st, a, Repeat(items_a, ListLen(st, b) - ListLen(st, a)))

\* result_prefix_items.append(r.v)
ZipAppend(z, r) == Ret(r.st, Append(z.v, r.v))

\* for i, j in zip(prefix_items_a, prefix_items_b): append {'allOf': [i, j]}
RECURSIVE ZipAllOf(_, _, _, _)
ZipAllOf(z, la, lb, i) ==
    IF i > Len(la) \/ i > Len(lb) THEN z
    ELSE ZipAllOf(ZipAppend(z, AllOfPair(z.st, la[i], lb[i])), la, lb, i + 1)

\* the list object result_prefix_items
NewList(z) == Alloc(z.st, ListCell(z.v))

ZipPrefixItems(st, a, b) == NewList(ZipAllOf(Ret(st, <<>>), Items(st, a), Items(st, b), 1))

MergePrefixLists(st, a, b, result, to_add) ==
    IF ~IsList(st, a) \/ ~IsList(st, b) THEN Raise(st, "AssertionError")
    ELSE ZipPrefixItems(PadPrefixItems(st, a, b, GetOr(st, result, "items", NORM_TRUE),
                                      GetOr(st, to_add, "items", NORM_TRUE)), a, b)

MergePrefixWith(prefix_items_b, a, result, to_add) ==
    MergePrefixLists(prefix_items_b.st, a, prefix_items_b.v, result, to_add)

MergePrefixOf(prefix_items_a, result, to_add) ==
    MergePrefixWith(PrefixItemsOf(prefix_items_a.st, to_add), prefix_items_a.v,
                    result, to_add)

_merge_prefix_items(st, result, to_add) ==
    MergePrefixOf(PrefixItemsOf(st, result), result, to_add)

(***************************************************************************)
(* _merge (lines 120-147)                                                  *)
(***************************************************************************)
ComplexKeys == {"prefixItems", "properties"}

_complex_mergers(st, key, result, to_add) ==
    IF key = "prefixItems"
    THEN _merge_prefix_items(st, result, to_add)
    ELSE _merge_properties(st, result, to_add)

\* for key, merger in _complex_mergers.items()
MergeComplex(st, key, result, to_add) ==
    IF ~Ok(st) THEN st
    ELSE IF Has(st, result, key) \/ Has(st, to_add, key)
    THEN Assign(_complex_mergers(st, key, result, to_add), result, key)
    ELSE st

\* the body of the loop over result.items()
MergeSimpleItem(st, result, to_add, key) ==
    IF ~Has(st, to_add, key) THEN st
    ELSE IF key \in SimpleKeys
    THEN Assign(_simple_mergers(st, key, Get(st, result, key), Get(st, to_add, key)),
                result, key)
    ELSE IF key \in ComplexKeys THEN st
    ELSE Raise(st, "NormalizationException").st

\* for key, value in result.items()
RECURSIVE MergeSimpleLoop(_, _, _, _)
MergeSimpleLoop(st, result, to_add, i) ==
    IF ~Ok(st) \/ i > Len(Keys(st, result)) THEN st
    ELSE MergeSimpleLoop(MergeSimpleItem(st, result, to_add, Keys(st, result)[i]),
                         result, to_add, i + 1)

\* the body of the loop that copies all remaining keys
MergeCopyItem(st, result, to_add, key) ==
    IF ~Has(st, result, key) /\ key \notin ComplexKeys
    THEN SetItem(st, result, key, Get(st, to_add, key))
    ELSE st

\* for key, value in to_add.items()
RECURSIVE MergeCopyLoop(_, _, _, _)
MergeCopyLoop(st, result, to_add, i) ==
    IF ~Ok(st) \/ i > Len(Keys(st, to_add)) THEN st
    ELSE MergeCopyLoop(MergeCopyItem(st, result, to_add, Keys(st, to_add)[i]),
                       result, to_add, i + 1)

\* _merge, first loop: for key, merger in _complex_mergers.items()
MergeComplexLoop(st, result, to_add) ==
    MergeComplex(MergeComplex(st, "prefixItems", result, to_add),
                 "properties", result, to_add)

\* _merge, second and third loop
MergeKeyLoops(st, result, to_add) ==
    MergeCopyLoop(MergeSimpleLoop(st, result, to_add, 1), result, to_add, 1)

(***************************************************************************)
(* merge, merge_simple (lines 149-164)                                     *)
(***************************************************************************)
\* max([len(s['anyOf']) for s in schemas])
RECURSIVE MaxAnyOfLen(_, _, _)
MaxAnyOfLen(st, schemas, i) ==
    IF i > Len(schemas) THEN 0
    ELSE Max(ListLen(st, Get(st, schemas[i], "anyOf")), MaxAnyOfLen(st, schemas, i + 1))

\* {'anyOf': branches}
AnyOfDict(st, branches) ==
    LET l == Alloc(st, ListCell(branches))
    IN  Alloc(l.st, DictCell(<<"anyOf">>, [key \in {"anyOf"} |-> l.v]))

(***************************************************************************)
(* _simplify_if_then_else (lines 181-210)                                  *)
(***************************************************************************)
\* d.pop(key, default): the state after the removal
Pop(st, v, key) == IF Has(st, v, key) THEN DelItem(st, v, key) ELSE st

\* {'allOf': [a, b, c]}
AllOfTriple(st, a, b, c) ==
    LET l == Alloc(st, ListCell(<<a, b, c>>))
    IN  Alloc(l.st, DictCell(<<"allOf">>, [key \in {"allOf"} |-> l.v]))

_simplify_if_then_else(st, schema) ==
    IF ~Has(st, schema, "if") /\ ~Has(st, schema, "then") /\ ~Has(st, schema, "else")
    THEN Ret(st, schema)
    ELSE
    LET sub_schema == Copy(st, schema)
        if_schema == GetOr(st, schema, "if", None)
        then_schema == GetOr(st, schema, "then", PyTrue)
        else_schema == GetOr(st, schema, "else", PyTrue)
        s1 == Pop(Pop(Pop(sub_schema.st, sub_schema.v, "if"), sub_schema.v, "then"),
                  sub_schema.v, "else")
        \* the branch not(IF) and ELSE
        n == Alloc(s1, DictCell(<<"not">>, [key \in {"not"} |-> if_schema]))
        b1 == IF ~IsNone(if_schema) /\ ~IsNone(else_schema)
              THEN LET r == AllOfTriple(n.st, sub_schema.v, n.v, else_schema)
                   IN  Ret(r.st, <<r.v>>)
              ELSE Ret(s1, <<>>)
        \* the branch IF and THEN
        b2 == IF ~IsNone(if_schema) /\ ~IsNone(then_schema)
              THEN LET r == AllOfTriple(b1.st, sub_schema.v, if_schema, then_schema)
                   IN  Ret(r.st, b1.v \o <<r.v>>)
              ELSE b1
    IN  IF b2.v = <<>>
        THEN LET e == Alloc(b2.st, EmptyDict) IN AnyOfDict(e.st, <<e.v>>)
        ELSE AnyOfDict(b2.st, b2.v)

(***************************************************************************)
(* The call stack                                                          *)
(*                                                                         *)
(* The functions that recurse or loop over calls (_inline_refs, _to_dnf,   *)
(* _normalize, _check_normalized, merge_simple) run on an explicit stack   *)
(* of frames.  A step resumes the top frame and runs it up to its next     *)
(* call, its next loop iteration, its return or the exception it raises.   *)
(***************************************************************************)
\* the frame calls callee and waits in fr
CallOut(st, fr, callee) == [st |-> st, kind |-> "call", fr |-> fr, callee |-> callee]
\* the frame goes on in fr
GotoOut(st, fr) == [st |-> st, kind |-> "goto", fr |-> fr]
\* the frame returns v (and, for _inline_refs, the flag f)
RetOut(st, v, f) == [st |-> st, kind |-> "return", v |-> v, f |-> f]
\* the frame raises e
RaiseOut(st, e) == [st |-> [st EXCEPT !.err = e], kind |-> "raise"]

(***************************************************************************)
(* merge, merge_simple (lines 149-164)                                     *)
(***************************************************************************)
\* schemas: the elements of the list passed to merge
MergeFrame(schemas) ==
    [fn |-> "merge_simple", pc |-> "start", schemas |-> schemas, num |-> 0,
     idx |-> 0, k |-> 1, results |-> <<>>, result |-> None]

\* for idx in range(num): result = {} ... results.append(result)
MergeBranch(st, fr) ==
    IF fr.idx >= fr.num
    THEN LET r == AnyOfDict(st, fr.results) IN RetOut(r.st, r.v, FALSE)
    ELSE LET result == Alloc(st, EmptyDict)
         IN  GotoOut(result.st, [fr EXCEPT !.pc = "option", !.k = 1, !.result = result.v])

\* option = ao[idx % len(ao)]
Option(st, fr) ==
    ListGet(st, Get(st, fr.schemas[fr.k], "anyOf"),
            (fr.idx % ListLen(st, Get(st, fr.schemas[fr.k], "anyOf"))) + 1)

\* after _merge(result, option): the next schema, or results.append(result)
MergeOptionDone(st, fr) ==
    IF ~Ok(st) THEN RaiseOut(st, st.err)
    ELSE IF fr.k < Len(fr.schemas) THEN GotoOut(st, [fr EXCEPT !.pc = "option", !.k = @ + 1])
    ELSE MergeBranch(st, [fr EXCEPT !.results = Append(@, fr.result), !.idx = @ + 1])

\* _merge(result, option) is in its second loop
MergeKeys(st, fr) ==
    IF ~Ok(st) THEN RaiseOut(st, st.err) ELSE GotoOut(st, [fr EXCEPT !.pc = "_merge keys"])

\* for schema in schemas: one iteration, up to the end of the first loop of _merge
MergeOption(st, fr) ==
    IF ListLen(st, Get(st, fr.schemas[fr.k], "anyOf")) = 0 THEN MergeOptionDone(st, fr)
    ELSE MergeKeys(MergeComplexLoop(st, fr.result, Option(st, fr)), fr)

StepMergeSimple(st, fr, ret) ==
    CASE fr.pc = "start" ->
            IF Len(fr.schemas) = 0 THEN RaiseOut(st, "AssertionError")
            ELSE MergeBranch(st, [fr EXCEPT !.num = MaxAnyOfLen(st, fr.schemas, 1)])
      [] fr.pc = "option" -> MergeOption(st, fr)
      [] fr.pc = "_merge keys" ->
            MergeOptionDone(MergeKeyLoops(st, fr.result, Option(st, fr)), fr)

(***************************************************************************)
(* _inline_refs (lines 213-240)                                            *)
(***************************************************************************)
InlineFrame(schema, resolver) ==
    [fn |-> "_inline_refs", pc |-> "start", schema |-> schema, resolver |-> resolver,
     contains_refs |-> FALSE, kwi |-> 1, idx |-> 1]

\* for kw in ['anyOf', 'allOf', 'oneOf']
InlineKws == <<"anyOf", "allOf", "oneOf">>

\* runs the loops of lines 230-238 from position (kwi, idx) to the next call
RECURSIVE InlineNext(_, _)
InlineNext(st, fr) ==
    IF fr.kwi > Len(InlineKws)
    THEN IF Has(st, fr.schema, "not")
         THEN CallOut(st, [fr EXCEPT !.pc = "not"],
                      InlineFrame(Get(st, fr.schema, "not"), fr.resolver))
         ELSE RetOut(st, fr.schema, fr.contains_refs)
    ELSE IF Has(st, fr.schema, InlineKws[fr.kwi])
            /\ fr.idx <= ListLen(st, Get(st, fr.schema, InlineKws[fr.kwi]))
    THEN CallOut(st, [fr EXCEPT !.pc = "elem"],
                 InlineFrame(ListGet(st, Get(st, fr.schema, InlineKws[fr.kwi]), fr.idx),
                             fr.resolver))
    ELSE InlineNext(st, [fr EXCEPT !.kwi = @ + 1, !.idx = 1])

\* lines 222-228: schema = {'allOf': [side_schema, ref_schema]}
InlineWrap(st, schema, resolver) ==
    LET side_schema == Copy(st, schema)
        ref_schema == resolve(DelItem(side_schema.st, side_schema.v, "$ref"), resolver,
                              Get(st, schema, "$ref"))
    IN  IF Ok(ref_schema.st)
        THEN AllOfPair(ref_schema.st, side_schema.v, ref_schema.v)
        ELSE ref_schema

InlineStart(st, fr) ==
    IF IsFalse(fr.schema) THEN RetOut(st, NORM_FALSE, FALSE)
    ELSE IF IsTrue(fr.schema) THEN RetOut(st, NORM_TRUE, TRUE)
    ELSE IF ~IsDict(st, fr.schema) THEN RaiseOut(st, "TypeError")
    ELSE IF Has(st, fr.schema, "$ref")
    THEN LET w == InlineWrap(st, fr.schema, fr.resolver)
         IN  IF Ok(w.st)
             THEN InlineNext(w.st, [fr EXCEPT !.schema = w.v, !.contains_refs = TRUE])
             ELSE RaiseOut(w.st, w.st.err)
    ELSE InlineNext(st, fr)

StepInlineRefs(st, fr, ret) ==
    CASE fr.pc = "start" -> InlineStart(st, fr)
      [] fr.pc = "elem" ->
            \* schema[kw][idx] = new_schema
            InlineNext(ListSet(st, Get(st, fr.schema, InlineKws[fr.kwi]), fr.idx, ret.v),
                       [fr EXCEPT !.contains_refs = @ \/ ret.f, !.idx = @ + 1])
      [] fr.pc = "not" ->
            \* schema['not'] = new_schema
            RetOut(SetItem(st, fr.schema, "not", ret.v), fr.schema,
                   fr.contains_refs \/ ret.f)

(***************************************************************************)
(* _to_dnf (lines 243-293)                                                 *)
(***************************************************************************)
DnfFrame(schema, resolver, new_refs) ==
    [fn |-> "_to_dnf", pc |-> "start", schema |-> schema, resolver |-> resolver,
     new_refs |-> new_refs, idx |-> 1, any_ofs |-> <<>>, normalized |-> <<>>,
     one_ofs |-> <<>>, all_ofs |-> <<>>, s |-> None]

\* i == idx in "invert(i) if i == idx else i": i is a schema (a dict) and idx
\* a list position (an int); a dict never equals an int
DictEqualsInt(schema, idx) == FALSE

\* [invert(i) if i == idx else i for i in normalized_sub_schemas]
OneOfOperands(normalized, idx) ==
    [k \in DOMAIN normalized |->
        IF DictEqualsInt(normalized[k], idx) THEN invert(normalized[k]) ELSE normalized[k]]

\* a side schema from which 'not' is not deleted: the loop of line 280 run over
\* ['allOf', 'anyOf', 'oneOf'] only
SideSchemaKeepsNot(st, schema) ==
    LET c == Copy(st, schema)
    IN  Ret(Pop(Pop(Pop(c.st, c.v, "allOf"), c.v, "anyOf"), c.v, "oneOf"), c.v)

\* for sub_schema in ['allOf', 'anyOf', 'oneOf', 'not']: del side_schema[...]
SideSchema(st, schema) ==
    LET c == Copy(st, schema)
    IN  Ret(Pop(Pop(Pop(Pop(c.st, c.v, "allOf"), c.v, "anyOf"), c.v, "oneOf"),
                c.v, "not"), c.v)

\* the children of allOf (lines 285-286), then s = merge(all_ofs)
DnfAllOf(st, fr) ==
    IF Has(st, fr.schema, "allOf") /\ fr.idx <= ListLen(st, Get(st, fr.schema, "allOf"))
    THEN CallOut(st, [fr EXCEPT !.pc = "allOf"],
                 DnfFrame(ListGet(st, Get(st, fr.schema, "allOf"), fr.idx),
                          fr.resolver, fr.new_refs))
    ELSE CallOut(st, [fr EXCEPT !.pc = "merged all_ofs"], MergeFrame(fr.all_ofs))

\* lines 279-284: the side schema
DnfSide(st, fr) ==
    LET side_schema == SideSchema(st, fr.schema)
        side == AnyOfDict(side_schema.st, <<side_schema.v>>)
    IN  DnfAllOf(side.st, [fr EXCEPT !.all_ofs = <<side.v>>, !.idx = 1])

\* for idx, _ in enumerate(normalized_sub_schemas): options = merge(...)
DnfOneOfMerge(st, fr) ==
    IF fr.idx <= Len(fr.normalized)
    THEN CallOut(st, [fr EXCEPT !.pc = "oneOf merged"],
                 MergeFrame(OneOfOperands(fr.normalized, fr.idx - 1)))
    ELSE DnfSide(st, fr)

\* the children of oneOf (lines 263-276)
DnfOneOf(st, fr) ==
    IF Has(st, fr.schema, "oneOf")
    THEN IF fr.idx <= ListLen(st, Get(st, fr.schema, "oneOf"))
         THEN CallOut(st, [fr EXCEPT !.pc = "oneOf"],
                      DnfFrame(ListGet(st, Get(st, fr.schema, "oneOf"), fr.idx),
                               fr.resolver, fr.new_refs))
         ELSE DnfOneOfMerge(st, [fr EXCEPT !.idx = 1])
    ELSE LET e == Alloc(st, EmptyDict)
         IN  DnfSide(e.st, [fr EXCEPT !.one_ofs = <<e.v>>])

\* the children of anyOf (lines 254-260)
DnfAnyOf(st, fr) ==
    IF Has(st, fr.schema, "anyOf")
    THEN IF fr.idx <= ListLen(st, Get(st, fr.schema, "anyOf"))
         THEN CallOut(st, [fr EXCEPT !.pc = "anyOf"],
                      DnfFrame(ListGet(st, Get(st, fr.schema, "anyOf"), fr.idx),
                               fr.resolver, fr.new_refs))
         ELSE DnfOneOf(st, [fr EXCEPT !.idx = 1])
    ELSE LET e == Alloc(st, EmptyDict)
         IN  DnfOneOf(e.st, [fr EXCEPT !.any_ofs = <<e.v>>, !.idx = 1])

DnfStart(st, fr) ==
    IF IsFalse(fr.schema) THEN RetOut(st, NORM_FALSE, FALSE)
    ELSE IF IsTrue(fr.schema) THEN RetOut(st, NORM_TRUE, FALSE)
    ELSE IF ~IsDict(st, fr.schema) THEN RaiseOut(st, "TypeError")
    ELSE LET simplified == _simplify_if_then_else(st, fr.schema)
         IN  DnfAnyOf(simplified.st, [fr EXCEPT !.schema = simplified.v])

\* lines 289-293: merge([{'anyOf': any_ofs}, {'anyOf': one_ofs}, s])
DnfMergeAll(st, fr, s) ==
    LET a == AnyOfDict(st, fr.any_ofs)
        o == AnyOfDict(a.st, fr.one_ofs)
    IN  CallOut(o.st, [fr EXCEPT !.pc = "merged", !.s = s], MergeFrame(<<a.v, o.v, s>>))

StepToDnf(st, fr, ret) ==
    CASE fr.pc = "start" -> DnfStart(st, fr)
      [] fr.pc = "anyOf" ->
            \* any_ofs.extend(normalized_sub_schema['anyOf'])
            DnfAnyOf(st, [fr EXCEPT !.any_ofs = @ \o Items(st, Get(st, ret.v, "anyOf")),
                                    !.idx = @ + 1])
      [] fr.pc = "oneOf" ->
            DnfOneOf(st, [fr EXCEPT !.normalized = Append(@, ret.v), !.idx = @ + 1])
      [] fr.pc = "oneOf merged" ->
            \* one_ofs.extend(options['anyOf'])
            DnfOneOfMerge(st, [fr EXCEPT !.one_ofs = @ \o Items(st, Get(st, ret.v, "anyOf")),
                                         !.idx = @ + 1])
      [] fr.pc = "allOf" ->
            DnfAllOf(st, [fr EXCEPT !.all_ofs = Append(@, ret.v), !.idx = @ + 1])
      [] fr.pc = "merged all_ofs" -> DnfMergeAll(st, fr, ret.v)
      [] fr.pc = "merged" -> RetOut(st, ret.v, FALSE)

(***************************************************************************)
(* Loop positions                                                          *)
(*                                                                         *)
(* _normalize and _check_normalized loop over the branches of an anyOf     *)
(* and, in each branch, over its sub-schema positions.  A position is      *)
(* <<branch, stage, index>>; the loops visit the positions in              *)
(* lexicographic order.                                                    *)
(***************************************************************************)
Less(p, q) ==
    \/ p[1] < q[1]
    \/ p[1] = q[1] /\ p[2] < q[2]
    \/ p[1] = q[1] /\ p[2] = q[2] /\ p[3] < q[3]

\* the first position of sites that is not before from; <<>> if there is none
NextSite(sites, from) ==
    LET ahead == {p \in sites : ~Less(p, from)}
    IN  IF ahead = {} THEN <<>>
        ELSE CHOOSE p \in ahead : \A q \in ahead : ~Less(q, p)

\* for kw in ['additionalProperties', 'items', 'additionalItems']
SubSchemaKws == <<"additionalProperties", "items", "additionalItems">>

\* len(sub_schema.get('properties', {}))
NumProperties(st, sub_schema) ==
    IF Has(st, sub_schema, "properties")
    THEN Len(Keys(st, Get(st, sub_schema, "properties"))) ELSE 0

\* len(sub_schema.get('prefixItems', []))
NumPrefixItems(st, sub_schema) ==
    IF Has(st, sub_schema, "prefixItems")
    THEN ListLen(st, Get(st, sub_schema, "prefixItems")) ELSE 0

\* stage 4: the values of properties, stage 5: the elements of prefixItems
ContainerSites(st, branches) ==
    UNION {{<<b, 4, p>> : p \in 1..NumProperties(st, branches[b])}
           \cup {<<b, 5, p>> : p \in 1..NumPrefixItems(st, branches[b])} :
           b \in {b \in DOMAIN branches : IsDict(st, branches[b])}}

(***************************************************************************)
(* _normalize (lines 296-336)                                              *)
(***************************************************************************)
NormalizeFrame(schema, resolver, new_refs) ==
    [fn |-> "_normalize", pc |-> "start", schema |-> schema, resolver |-> resolver,
     new_refs |-> new_refs, new_ref_name |-> "", contains_refs |-> FALSE,
     result |-> None, at |-> <<1, 1, 1>>]

\* hashlib.sha1(json.dumps(schema).encode()).hexdigest(): the digest is taken
\* to be collision free, so the name is the encoding itself
Fingerprint(dump) == dump.s

\* {'anyOf': [{'$ref': f"#/$defs/{new_ref_name}"}]}
RefSchema(st, new_ref_name) ==
    LET b == Alloc(st, DictCell(<<"$ref">>,
                 [key \in {"$ref"} |-> Ptr(<<"$defs", new_ref_name>>)]))
    IN  AnyOfDict(b.st, <<b.v>>)

\* the positions of the loop of lines 319-330: stages 1-3 are the keywords
\* of SubSchemaKws
NormalizeSites(st, branches) ==
    {p \in (DOMAIN branches) \X (DOMAIN SubSchemaKws) \X {1} :
        Has(st, branches[p[1]], SubSchemaKws[p[2]])}
    \cup ContainerSites(st, branches)

\* runs the loop of lines 319-330 from the position fr.at to the next call
NormalizeNext(st, fr) ==
    LET branches == Items(st, Get(st, fr.result, "anyOf"))
        at == NextSite(NormalizeSites(st, branches), fr.at)
        sub_schema == branches[at[1]]
        callee(schema) == NormalizeFrame(schema, fr.resolver, fr.new_refs)
    IN  IF at = <<>>
        THEN \* lines 333-336
             IF fr.contains_refs
             THEN LET r == RefSchema(st, fr.new_ref_name) IN RetOut(r.st, r.v, FALSE)
             ELSE RetOut(st, fr.result, FALSE)
        ELSE IF at[2] <= 3
        THEN CallOut(st, [fr EXCEPT !.pc = "kw", !.at = at],
                     callee(Get(st, sub_schema, SubSchemaKws[at[2]])))
        ELSE IF at[2] = 4
        THEN LET props == Get(st, sub_schema, "properties")
             IN  CallOut(st, [fr EXCEPT !.pc = "prop", !.at = at],
                         callee(Get(st, props, Keys(st, props)[at[3]])))
        ELSE \* line 330 calls _normalize(sub_sub_schema, resolver): the
             \* argument new_refs is missing
             RaiseOut(st, "TypeError")

NormalizeStart(st, fr) ==
    IF IsFalse(fr.schema) THEN RetOut(st, NORM_FALSE, FALSE)
    ELSE IF IsTrue(fr.schema) THEN RetOut(st, NORM_TRUE, FALSE)
    ELSE LET dump == Dumps(st, fr.schema, {})
             new_ref_name == Fingerprint(dump)
         IN  IF ~dump.ok THEN RaiseOut(st, "ValueError")
             ELSE IF Has(st, fr.new_refs, new_ref_name)
             THEN LET r == RefSchema(st, new_ref_name) IN RetOut(r.st, r.v, FALSE)
             ELSE CallOut(st, [fr EXCEPT !.pc = "inlined", !.new_ref_name = new_ref_name],
                          InlineFrame(fr.schema, fr.resolver))

StepNormalize(st, fr, ret) ==
    CASE fr.pc = "start" -> NormalizeStart(st, fr)
      [] fr.pc = "inlined" ->
            \* (schema, contains_refs) = _inline_refs(schema, resolver)
            CallOut(st, [fr EXCEPT !.pc = "dnf", !.schema = ret.v, !.contains_refs = ret.f],
                    DnfFrame(ret.v, fr.resolver, fr.new_refs))
      [] fr.pc = "dnf" ->
            \* result = _to_dnf(...); if contains_refs: new_refs[new_ref_name] = result
            NormalizeNext(IF fr.contains_refs
                          THEN SetItem(st, fr.new_refs, fr.new_ref_name, ret.v)
                          ELSE st,
                          [fr EXCEPT !.result = ret.v])
      [] fr.pc = "kw" ->
            \* sub_schema[kw] = _normalize(sub_schema[kw], resolver, new_refs)
            NormalizeNext(SetItem(st, ListGet(st, Get(st, fr.result, "anyOf"), fr.at[1]),
                                  SubSchemaKws[fr.at[2]], ret.v),
                          [fr EXCEPT !.at = <<fr.at[1], fr.at[2] + 1, 1>>])
      [] fr.pc = "prop" ->
            \* props[name] = _normalize(sub_sub_schema, resolver, new_refs)
            LET props == Get(st, ListGet(st, Get(st, fr.result, "anyOf"), fr.at[1]),
                             "properties")
            IN  NormalizeNext(SetItem(st, props, Keys(st, props)[fr.at[3]], ret.v),
                              [fr EXCEPT !.at = <<fr.at[1], 4, fr.at[3] + 1>>])

(***************************************************************************)
(* normalize (lines 339-359)                                               *)
(***************************************************************************)
NormalizeApiFrame(schema) ==
    [fn |-> "normalize", pc |-> "start", schema |-> schema, new_refs |-> None]

StepNormalizeApi(st, fr, ret) ==
    CASE fr.pc = "start" ->
            IF IsFalse(fr.schema)
            THEN LET r == Alloc(st, DictCell(<<"type">>, [key \in {"type"} |-> Strs(<<>>)]))
                 IN  RetOut(r.st, r.v, FALSE)
            ELSE IF IsTrue(fr.schema)
            THEN LET r == Alloc(st, EmptyDict) IN RetOut(r.st, r.v, FALSE)
            ELSE IF ~IsDict(st, fr.schema) THEN RaiseOut(st, "NormalizationException")
            ELSE LET new_schema == Copy(st, fr.schema)
                     s1 == Pop(Pop(new_schema.st, new_schema.v, "$schema"),
                               new_schema.v, "$defs")
                     new_refs == Alloc(s1, EmptyDict)
                 IN  CallOut(new_refs.st,
                             [fr EXCEPT !.pc = "normalized", !.new_refs = new_refs.v],
                             NormalizeFrame(new_schema.v, fr.schema, new_refs.v))
      [] fr.pc = "normalized" ->
            LET s1 == IF Has(st, fr.schema, "$schema")
                      THEN SetItem(st, ret.v, "$schema", Get(st, fr.schema, "$schema"))
                      ELSE st
            IN  RetOut(SetItem(s1, ret.v, "$defs", fr.new_refs), ret.v, FALSE)


(***************************************************************************)
(* check_normalized (lines 362-412)                                        *)
(***************************************************************************)
Forbidden == {"anyOf", "allOf", "oneOf", "not", "if", "then", "else"}

\* checked_refs is a set object shared by all the frames
SetCell(s) == [k |-> "set", s |-> s]

CheckFrame(schema, resolver, checked_refs) ==
    [fn |-> "_check_normalized", pc |-> "start", schema |-> schema,
     resolver |-> resolver, checked_refs |-> checked_refs, at |-> <<1, 0, 1>>]

CheckApiFrame(schema) == [fn |-> "check_normalized", pc |-> "start", schema |-> schema]

\* lines 387-401 do something in the branch: they raise, or they follow a
\* reference that is not in checked_refs
ChecksBranch(st, sub_schema, checked_refs) ==
    \/ ~IsDict(st, sub_schema)
    \/ \E i \in Forbidden : Has(st, sub_schema, i)
    \/ /\ Has(st, sub_schema, "$ref")
       /\ \/ Len(Keys(st, sub_schema)) # 1
          \/ Get(st, sub_schema, "$ref") \notin st.heap[checked_refs.a].s

\* the positions of the loop of lines 384-412: stage 0 is lines 387-401,
\* stages 1-3 are the keywords of SubSchemaKws; line 405 tests and reads
\* schema, not sub_schema
CheckSites(st, schema, branches, checked_refs) ==
    {p \in (DOMAIN branches) \X {0} \X {1} : ChecksBranch(st, branches[p[1]], checked_refs)}
    \cup {p \in (DOMAIN branches) \X (DOMAIN SubSchemaKws) \X {1} :
            Has(st, schema, SubSchemaKws[p[2]])}
    \cup ContainerSites(st, branches)

\* lines 387-401 in the branch sub_schema
CheckBranch(st, fr, at, sub_schema) ==
    IF ~IsDict(st, sub_schema) THEN RaiseOut(st, "TypeError")
    ELSE IF \E i \in Forbidden : Has(st, sub_schema, i)
    THEN RaiseOut(st, "NormalizationException")
    ELSE IF Len(Keys(st, sub_schema)) # 1 THEN RaiseOut(st, "NormalizationException")
    ELSE LET ref == Get(st, sub_schema, "$ref")
             s1 == [st EXCEPT !.heap[fr.checked_refs.a].s = @ \cup {ref}]
             target == resolve(s1, fr.resolver, ref)
         IN  IF ~Ok(target.st) THEN RaiseOut(target.st, target.st.err)
             ELSE CallOut(s1, [fr EXCEPT !.pc = "called", !.at = <<at[1], 1, 1>>],
                          CheckFrame(target.v, fr.resolver, fr.checked_refs))

\* runs the loop of lines 384-412 from the position fr.at to the next call
CheckNext(st, fr) ==
    LET branches == Items(st, Get(st, fr.schema, "anyOf"))
        at == NextSite(CheckSites(st, fr.schema, branches, fr.checked_refs), fr.at)
        sub_schema == branches[at[1]]
        called(schema, next) ==
            CallOut(st, [fr EXCEPT !.pc = "called", !.at = next],
                    CheckFrame(schema, fr.resolver, fr.checked_refs))
    IN  IF at = <<>> THEN RetOut(st, None, FALSE)
        ELSE IF at[2] = 0 THEN CheckBranch(st, fr, at, sub_schema)
        ELSE IF at[2] <= 3
        THEN called(Get(st, fr.schema, SubSchemaKws[at[2]]), <<at[1], at[2] + 1, 1>>)
        ELSE IF at[2] = 4
        THEN LET props == Get(st, sub_schema, "properties")
             IN  called(Get(st, props, Keys(st, props)[at[3]]), <<at[1], 4, at[3] + 1>>)
        ELSE called(ListGet(st, Get(st, sub_schema, "prefixItems"), at[3]),
                    <<at[1], 5, at[3] + 1>>)

\* lines 369-382
CheckStart(st, fr) ==
    IF ~IsDict(st, fr.schema) THEN RaiseOut(st, "NormalizationException")
    ELSE LET keys == DOMAIN st.heap[fr.schema.a].m \ {"$schema", "$defs"}
         IN  IF keys # {"anyOf"} THEN RaiseOut(st, "NormalizationException")
             ELSE IF ~IsList(st, Get(st, fr.schema, "anyOf"))
             THEN RaiseOut(st, "NormalizationException")
             ELSE CheckNext(st, fr)

StepCheck(st, fr, ret) ==
    CASE fr.pc = "start" -> CheckStart(st, fr)
      [] fr.pc = "called" -> CheckNext(st, fr)

StepCheckApi(st, fr, ret) ==
    CASE fr.pc = "start" ->
            LET checked_refs == Alloc(st, SetCell({}))
            IN  CallOut(checked_refs.st, [fr EXCEPT !.pc = "checked"],
                        CheckFrame(fr.schema, fr.schema, checked_refs.v))
      [] fr.pc = "checked" -> RetOut(st, None, FALSE)

(***************************************************************************)
(* Inputs                                                                  *)
(***************************************************************************)
TypeA == D(<< <<"type", Strs(<<"a">>)>> >>)
TypeB == D(<< <<"type", Strs(<<"b">>)>> >>)
Minimum(n) == D(<< <<"minimum", Num(n)>> >>)
RefTo(p) == D(<< <<"$ref", Ptr(p)>> >>)

DefsA == D(<< <<"a", TypeA>> >>)
AnyOf(l) == D(<< <<"anyOf", L(l)>> >>)
Dnf(branches) == AnyOf(branches)

\* booleans, the empty schema, a value that is no schema
InTrue == PyTrue
InFalse == PyFalse
InEmpty == D(<<>>)
InString == Str("a")
\* prefixItems
InPrefixItems == D(<< <<"prefixItems", L(<<D(<<>>)>>)>> >>)
InNoPrefixItems == D(<< <<"prefixItems", L(<<>>)>> >>)
\* references into $defs
InIfRef == D(<< <<"if", RefTo(<<"$defs", "a">>)>>, <<"$defs", DefsA>> >>)
InNotRef == D(<< <<"not", RefTo(<<"$defs", "a">>)>>, <<"$defs", DefsA>> >>)
InRef == D(<< <<"$ref", Ptr(<<"$defs", "a">>)>>, <<"$defs", DefsA>> >>)
InItemsRef ==
    D(<< <<"$schema", Str("s")>>, <<"items", RefTo(<<"$defs", "a">>)>>, <<"$defs", DefsA>> >>)
InDanglingRef == D(<< <<"$ref", Ptr(<<"$defs", "b">>)>>, <<"$defs", DefsA>> >>)
\* reference cycles
DefsCycle == D(<< <<"a", AnyOf(<<TypeA, RefTo(<<"$defs", "a">>)>>)>> >>)
InCycleDefs == D(<< <<"$ref", Ptr(<<"$defs", "a">>)>>, <<"$defs", DefsCycle>> >>)
InCycleRef == D(<< <<"$ref", Ptr(<<>>)>> >>)
InCycleNot == D(<< <<"not", RefTo(<<>>)>> >>)
InCycleAllOf == D(<< <<"allOf", L(<<RefTo(<<>>)>>)>> >>)
InCycleOneOf == D(<< <<"oneOf", L(<<TypeA, RefTo(<<>>)>>)>> >>)
InCycleProperties == D(<< <<"properties", D(<< <<"x", RefTo(<<>>)>> >>)>> >>)
InCycleItems == D(<< <<"items", RefTo(<<>>)>> >>)
InCycleAnyOfInProperties ==
    D(<< <<"properties", D(<< <<"x", AnyOf(<<RefTo(<<>>)>>)>> >>)>> >>)
\* sub-schema positions
PropsXY == D(<< <<"x", TypeA>>, <<"y", D(<< <<"allOf", L(<<TypeA, Minimum(1)>>)>> >>)>> >>)
InProperties == D(<< <<"properties", PropsXY>>, <<"additionalProperties", PyFalse>> >>)
InItemsNot == D(<< <<"items", D(<< <<"not", PyTrue>> >>)>> >>)
InAdditionalItems == D(<< <<"additionalItems", D(<< <<"oneOf", L(<<TypeA>>)>> >>)>> >>)
\* conditionals
InThen == D(<< <<"then", TypeA>>, <<"type", Strs(<<"b">>)>> >>)
InIfThenElse == D(<< <<"if", TypeA>>, <<"then", Minimum(1)>>, <<"else", Minimum(2)>> >>)
InIfElse ==
    D(<< <<"if", TypeA>>, <<"else", D(<< <<"not", TypeB>> >>)>>, <<"minimum", Num(3)>> >>)
\* schemas in or near normal form, for check_normalized
NfItems == AnyOf(<<D(<< <<"items", TypeA>> >>)>>)
NfAdditionalProperties == AnyOf(<<D(<< <<"additionalProperties", TypeA>> >>)>>)
NfAdditionalItems ==
    AnyOf(<<D(<< <<"additionalItems", AnyOf(<<D(<< <<"allOf", L(<<>>)>> >>)>>)>> >>)>>)
NfProperties == AnyOf(<<D(<< <<"properties", D(<< <<"x", TypeA>> >>)>> >>)>>)
NfPrefixItems == AnyOf(<<D(<< <<"prefixItems", L(<<TypeA>>)>> >>)>>)
NfNested ==
    AnyOf(<<D(<< <<"prefixItems", L(<<AnyOf(<<TypeA>>)>>)>>,
                 <<"properties", D(<< <<"x", AnyOf(<<TypeB>>)>> >>)>> >>)>>)
NfRefs ==
    D(<< <<"anyOf", L(<<RefTo(<<"$defs", "a">>), TypeA>>)>>,
         <<"$defs", D(<< <<"a", AnyOf(<<RefTo(<<"$defs", "a">>)>>)>> >>)>> >>)
RefAndType == D(<< <<"$ref", Ptr(<<"$defs", "a">>)>>, <<"type", Strs(<<"a">>)>> >>)
NfRefWithSibling ==
    D(<< <<"anyOf", L(<<RefAndType>>)>>, <<"$defs", D(<< <<"a", AnyOf(<<>>)>> >>)>> >>)

TestInputs == <<
    InTrue, InFalse, InEmpty, InString, InPrefixItems, InNoPrefixItems,
    InIfRef, InNotRef, InRef, InItemsRef, InDanglingRef,
    InCycleDefs, InCycleRef, InCycleNot, InCycleAllOf, InCycleOneOf,
    InCycleProperties, InCycleItems, InCycleAnyOfInProperties,
    InProperties, InItemsNot, InAdditionalItems,
    InThen, InIfThenElse, InIfElse,
    NfItems, NfAdditionalProperties, NfAdditionalItems, NfProperties, NfPrefixItems,
    NfNested, NfRefs, NfRefWithSibling
>>

\* the children of the generated schemas
AnyOfTypes == AnyOf(<<TypeA, TypeB>>)
AnyOfMinimums == AnyOf(<<Minimum(1), Minimum(2)>>)
NotTypeA == D(<< <<"not", TypeA>> >>)

Leaves == <<PyTrue, PyFalse, TypeA, TypeB, AnyOfTypes, AnyOfMinimums, NotTypeA>>

Combinators == <<"anyOf", "allOf", "oneOf">>

\* the assertion keywords beside the combinator
Siblings == << <<>>, << <<"type", Strs(<<"a">>)>> >> >>

\* {**sibling, kw: [Leaves[f[1]], ..., Leaves[f[n]]]}
Generated(kw, sibling, f) ==
    D(sibling \o << <<kw, L([i \in DOMAIN f |-> Leaves[f[i]]])>> >>)

\* operand lists of merge: schemas in normal form
PropX(schema) == D(<< <<"properties", D(<< <<"x", schema>> >>)>> >>)
PropXAdditional(schema, additional) ==
    D(<< <<"properties", D(<< <<"x", schema>> >>)>>, <<"additionalProperties", additional>> >>)
Prefix(schema) == D(<< <<"prefixItems", L(<<schema>>)>> >>)
Format(s) == D(<< <<"format", Str(s)>> >>)

MergeWithEmptyRight == L(<<Dnf(<<TypeA>>), Dnf(<<>>)>>)
MergeWithEmptyLeft == L(<<Dnf(<<>>), Dnf(<<TypeA, TypeB>>)>>)
MergeBothEmpty == L(<<Dnf(<<>>), Dnf(<<>>)>>)
MergeTwoByTwo == L(<<AnyOfTypes, AnyOfMinimums>>)
MergeThree == L(<<AnyOfTypes, Dnf(<<Minimum(1)>>), Dnf(<<TypeA>>)>>)
PropXTypeA == PropX(TypeA)
PropXMinimum == PropXAdditional(Minimum(1), TypeB)
PrefixTypeA == Prefix(TypeA)
PrefixMinimum == Prefix(Minimum(1))
MergeProperties == L(<<Dnf(<<PropXTypeA>>), Dnf(<<PropXMinimum>>)>>)
MergePrefixItems == L(<<Dnf(<<PrefixTypeA>>), Dnf(<<PrefixMinimum>>)>>)
MergeUnknownKeyword == L(<<Dnf(<<Format("x")>>), Dnf(<<Format("y")>>)>>)
MergeNothing == L(<<>>)

MergeInputs == <<
    MergeWithEmptyRight, MergeWithEmptyLeft, MergeBothEmpty, MergeTwoByTwo, MergeThree,
    MergeProperties, MergePrefixItems, MergeUnknownKeyword, MergeNothing
>>

(***************************************************************************)
(* The state machine: a caller builds a schema and calls the module        *)
(***************************************************************************)
VARIABLES
    input,      \* the literal the caller built the argument from
    st,         \* the interpreter state: heap and raised exception
    schema,     \* the argument object
    dump0,      \* json.dumps(schema) before any call
    calls,      \* the functions the caller called so far, in order
    stack,      \* the frames of the running call, the innermost last
    ret,        \* the value the last finished frame returned
    result      \* the value the last finished call returned

vars == <<input, st, schema, dump0, calls, stack, ret, result>>

NoRet == [v |-> None, f |-> FALSE]

Init ==
    /\ \/ \E i \in 1..Len(TestInputs) : input = TestInputs[i]
       \/ \E k \in 1..Len(Combinators), s \in 1..Len(Siblings), n \in 0..MaxLen :
            \E f \in [1..n -> 1..Len(Leaves)] :
                input = Generated(Combinators[k], Siblings[s], f)
       \/ \E i \in 1..Len(MergeInputs) : input = MergeInputs[i]
    /\ LET r == Load(ModuleHeap.st, input)
       IN  /\ st = r.st
           /\ schema = r.v
           /\ dump0 = Dumps(st, schema, {})
    /\ calls = <<>>
    /\ stack = <<>>
    /\ ret = NoRet
    /\ result = None

Idle == stack = <<>> /\ Ok(st)

\* the caller calls fn, whose first frame is frame
Call(fn, frame) ==
    /\ calls' = Append(calls, fn)
    /\ stack' = <<frame>>
    /\ ret' = NoRet
    /\ UNCHANGED <<input, st, schema, dump0, result>>

\* normalize(schema)
CallNormalize ==
    /\ Idle /\ calls = <<>>
    /\ Call("normalize", NormalizeApiFrame(schema))

\* check_normalized(schema), or check_normalized(normalize(schema))
CallCheckNormalized ==
    /\ Idle
    /\ \/ calls = <<>> /\ Call("check_normalized", CheckApiFrame(schema))
       \/ calls = <<"normalize">> /\ Call("check_normalized", CheckApiFrame(result))

\* _to_dnf(schema, Resolver(schema), {})
CallToDnf ==
    /\ Idle /\ calls = <<>>
    /\ IsDict(st, schema) \/ schema.t = "bool"
    /\ LET new_refs == Alloc(st, EmptyDict)
       IN  /\ st' = new_refs.st
           /\ stack' = <<DnfFrame(schema, schema, new_refs.v)>>
    /\ calls' = <<"_to_dnf">>
    /\ ret' = NoRet
    /\ UNCHANGED <<input, schema, dump0, result>>

\* merge(schemas)
CallMerge ==
    /\ Idle /\ calls = <<>>
    /\ IsList(st, schema)
    /\ Call("merge", MergeFrame(Items(st, schema)))

\* the effect of one step of the top frame: a call pushes a frame (or exceeds
\* the recursion limit), a return pops one, an exception unwinds the stack
Apply(out) ==
    /\ CASE out.kind = "call" ->
              IF Len(stack) + 1 > MaxDepth
              THEN /\ st' = [out.st EXCEPT !.err = "RecursionError"]
                   /\ stack' = <<>>
                   /\ UNCHANGED <<ret, result>>
              ELSE /\ st' = out.st
                   /\ stack' = Append([stack EXCEPT ![Len(stack)] = out.fr], out.callee)
                   /\ ret' = NoRet
                   /\ UNCHANGED result
         [] out.kind = "goto" ->
              /\ st' = out.st
              /\ stack' = [stack EXCEPT ![Len(stack)] = out.fr]
              /\ UNCHANGED <<ret, result>>
         [] out.kind = "return" ->
              /\ st' = out.st
              /\ stack' = SubSeq(stack, 1, Len(stack) - 1)
              /\ ret' = [v |-> out.v, f |-> out.f]
              /\ result' = IF Len(stack) = 1 /\ calls[Len(calls)] # "check_normalized"
                           THEN out.v ELSE result
         [] out.kind = "raise" ->
              /\ st' = out.st
              /\ stack' = <<>>
              /\ UNCHANGED <<ret, result>>
    /\ UNCHANGED <<input, schema, dump0, calls>>

Top == stack[Len(stack)]
Running(fn) == stack # <<>> /\ Top.fn = fn

StepNormalizeApiFrame == Running("normalize") /\ Apply(StepNormalizeApi(st, Top, ret))
StepNormalizeFrame == Running("_normalize") /\ Apply(StepNormalize(st, Top, ret))
StepInlineRefsFrame == Running("_inline_refs") /\ Apply(StepInlineRefs(st, Top, ret))
StepToDnfFrame == Running("_to_dnf") /\ Apply(StepToDnf(st, Top, ret))
StepMergeFrame == Running("merge_simple") /\ Apply(StepMergeSimple(st, Top, ret))
StepCheckApiFrame == Running("check_normalized") /\ Apply(StepCheckApi(st, Top, ret))
StepCheckFrame == Running("_check_normalized") /\ Apply(StepCheck(st, Top, ret))

Next ==
    \/ CallNormalize
    \/ CallCheckNormalized
    \/ CallToDnf
    \/ CallMerge
    \/ StepNormalizeApiFrame
    \/ StepNormalizeFrame
    \/ StepInlineRefsFrame
    \/ StepToDnfFrame
    \/ StepMergeFrame
    \/ StepCheckApiFrame
    \/ StepCheckFrame

Spec == Init /\ [][Next]_vars

(***************************************************************************)
(* Properties                                                              *)
(***************************************************************************)
\* normalize(input) has ended, by a return or by an exception
NormalizeEnded == calls = <<"normalize">> /\ stack = <<>>
NormalizeReturned == NormalizeEnded /\ Ok(st)

\* the input as the caller built it, before any call
Loaded == Load(ModuleHeap.st, input)

HasRef(cell) == cell.k = "dict" /\ "$ref" \in DOMAIN cell.m

\* the containers a container holds
ChildAddrs(s, a) ==
    IF s.heap[a].k = "dict"
    THEN {s.heap[a].m[key].a : key \in {x \in DOMAIN s.heap[a].m : s.heap[a].m[x].t = "ref"}}
    ELSE IF s.heap[a].k = "list"
    THEN {s.heap[a].l[i].a : i \in {x \in DOMAIN s.heap[a].l : s.heap[a].l[x].t = "ref"}}
    ELSE {}

\* the containers reachable from the containers of as
RECURSIVE Reach(_, _)
Reach(s, as) ==
    LET more == as \cup UNION {ChildAddrs(s, a) : a \in as}
    IN  IF more = as THEN as ELSE Reach(s, more)

KeySet(s, v) == DOMAIN s.heap[v.a].m
Branches(s, v) == Items(s, Get(s, v, "anyOf"))

\* C1: for every valid input (a boolean, or a dict all of whose $refs resolve
\* inside it) normalize returns, and check_normalized of the result raises
\* nothing
ValidInput ==
    \/ input.t = "bool"
    \/ /\ IsDict(Loaded.st, Loaded.v)
       /\ \A a \in DOMAIN Loaded.st.heap :
            HasRef(Loaded.st.heap[a]) =>
                Ok(resolve(Loaded.st, Loaded.v, Loaded.st.heap[a].m["$ref"]).st)

C1_CheckOfNormalizeSucceeds ==
    (stack = <<>> /\ Len(calls) >= 1 /\ calls[1] = "normalize" /\ ~Ok(st)) => ~ValidInput

\* C2: normalize terminates on every input with a reference cycle: its
\* recursion never exceeds the recursion limit
HasReferenceCycle ==
    \E a \in DOMAIN Loaded.st.heap :
        /\ HasRef(Loaded.st.heap[a])
        /\ LET target == resolve(Loaded.st, Loaded.v, Loaded.st.heap[a].m["$ref"])
           IN  Ok(target.st) /\ IsRef(target.v) /\ a \in Reach(Loaded.st, {target.v.a})

C2_CyclesTerminate ==
    (Len(calls) >= 1 /\ calls[1] = "normalize" /\ st.err = "RecursionError")
        => ~HasReferenceCycle

\* C3: every $ref anywhere in the output of normalize is #/$defs/<name> with
\* <name> a key of the output's $defs
TargetsDefs(s, out, v) ==
    /\ v.t = "ptr" /\ Len(v.p) = 2 /\ v.p[1] = "$defs"
    /\ Has(s, out, "$defs") /\ Has(s, Get(s, out, "$defs"), v.p[2])

C3_RefsTargetDefs ==
    (NormalizeReturned /\ IsDict(st, schema)) =>
        \A a \in Reach(st, {result.a}) :
            HasRef(st.heap[a]) => TargetsDefs(st, result, st.heap[a].m["$ref"])

\* C4: when normalize has returned or raised, the input and everything
\* reachable from it is equal to its value before the call
C4_InputNotMutated == NormalizeEnded => Dumps(st, schema, {}) = dump0

\* C5: when normalize returns on a dict input, no branch of the top-level
\* anyOf and no branch of the anyOf of a $defs entry has one of the keys
\* anyOf, allOf, oneOf, not, if, then, else
CombinatorFree(s, v) ==
    \A i \in 1..Len(Branches(s, v)) : KeySet(s, Branches(s, v)[i]) \cap Forbidden = {}

C5_BranchesHaveNoCombinators ==
    (NormalizeReturned /\ IsDict(st, schema)) =>
        /\ CombinatorFree(st, result)
        /\ \A name \in KeySet(st, Get(st, result, "$defs")) :
                CombinatorFree(st, Get(st, Get(st, result, "$defs"), name))

\* normalize has returned on an input with a 'not', with an entry in $defs
\* that has a branch
C5_Witness ==
    /\ NormalizeReturned /\ IsDict(st, schema) /\ Has(st, schema, "not")
    /\ \E name \in KeySet(st, Get(st, result, "$defs")) :
            Len(Branches(st, Get(st, Get(st, result, "$defs"), name))) > 0

\* C6: an empty anyOf survives as an empty branch list: _to_dnf and normalize
\* of {anyOf: []}, with or without sibling assertion keywords, return an empty
\* anyOf, and so does merge([X, {anyOf: []}])
EmptyAnyOf(s, v) ==
    IsDict(s, v) /\ Has(s, v, "anyOf") /\ IsList(s, Get(s, v, "anyOf"))
        /\ Len(Branches(s, v)) = 0

C6_EmptyAnyOfSurvives ==
    /\ ( /\ stack = <<>> /\ Ok(st)
         /\ calls = <<"normalize">> \/ calls = <<"_to_dnf">>
         /\ EmptyAnyOf(Loaded.st, schema)
         /\ KeySet(Loaded.st, schema) \subseteq {"anyOf"} \cup SimpleKeys )
       => EmptyAnyOf(st, result)
    /\ ( /\ stack = <<>> /\ Ok(st) /\ calls = <<"merge">>
         /\ ListLen(Loaded.st, schema) = 2
         /\ EmptyAnyOf(Loaded.st, ListGet(Loaded.st, schema, 2)) )
       => EmptyAnyOf(st, result)

\* C7: for {allOf: [c_1, ..., c_n]} with every c_k an anyOf of flat branches,
\* normalize returns |c_1.anyOf| * ... * |c_n.anyOf| branches
FlatDnf(s, v) ==
    /\ IsDict(s, v) /\ Keys(s, v) = <<"anyOf">> /\ IsList(s, Get(s, v, "anyOf"))
    /\ \A i \in 1..Len(Branches(s, v)) :
            /\ IsDict(s, Branches(s, v)[i])
            /\ KeySet(s, Branches(s, v)[i]) \cap (Forbidden \cup {"$ref"}) = {}

RECURSIVE BranchProduct(_, _, _)
BranchProduct(s, l, i) ==
    IF i > Len(l) THEN 1 ELSE Len(Branches(s, l[i])) * BranchProduct(s, l, i + 1)

\* the children c_1, ..., c_n as the caller passed them
AllOfInput == Items(Loaded.st, Get(Loaded.st, schema, "allOf"))

C7_CartesianProduct ==
    ( /\ NormalizeReturned /\ IsDict(st, schema)
      /\ Keys(Loaded.st, schema) = <<"allOf">>
      /\ \A i \in 1..Len(AllOfInput) : FlatDnf(Loaded.st, AllOfInput[i]) )
    => Len(Branches(st, result)) = BranchProduct(Loaded.st, AllOfInput, 1)

\* C8: for {oneOf: [c_1, ..., c_n]}, n >= 2, of type-only children with
\* pairwise disjoint types, normalize returns at least n branches, and for
\* each child a branch whose type contains the child's type
TypeOnly(s, v) == IsDict(s, v) /\ Keys(s, v) = <<"type">> /\ Get(s, v, "type").t = "strs"
TypeSet(s, v) == {Get(s, v, "type").l[i] : i \in DOMAIN Get(s, v, "type").l}

DisjointTypes(s, l) ==
    /\ \A i \in DOMAIN l : TypeOnly(s, l[i])
    /\ \A i, j \in DOMAIN l : i # j => TypeSet(s, l[i]) \cap TypeSet(s, l[j]) = {}

\* the children c_1, ..., c_n as the caller passed them
OneOfInput == Items(Loaded.st, Get(Loaded.st, schema, "oneOf"))

C8_OneOfExclusive ==
    ( /\ NormalizeReturned /\ IsDict(st, schema)
      /\ Keys(Loaded.st, schema) = <<"oneOf">>
      /\ Len(OneOfInput) >= 2
      /\ DisjointTypes(Loaded.st, OneOfInput) )
    => /\ Len(Branches(st, result)) >= Len(OneOfInput)
       /\ \A i \in 1..Len(OneOfInput) :
            \E k \in 1..Len(Branches(st, result)) :
                /\ Has(st, Branches(st, result)[k], "type")
                /\ TypeSet(Loaded.st, OneOfInput[i])
                        \subseteq TypeSet(st, Branches(st, result)[k])

\* C9: check_normalized raises when a branch holds, under additionalProperties,
\* items, additionalItems, a value of properties or an element of prefixItems,
\* a value that is no normal-form schema: here one that is no dict whose only
\* key besides $schema and $defs is anyOf
NormalFormKeys(s, v) == IsDict(s, v) /\ KeySet(s, v) \ {"$schema", "$defs"} = {"anyOf"}

HoldsNoNormalForm(s, b) ==
    \/ \E kw \in {"additionalProperties", "items", "additionalItems"} :
            Has(s, b, kw) /\ ~NormalFormKeys(s, Get(s, b, kw))
    \/ /\ Has(s, b, "properties") /\ IsDict(s, Get(s, b, "properties"))
       /\ \E name \in KeySet(s, Get(s, b, "properties")) :
            ~NormalFormKeys(s, Get(s, Get(s, b, "properties"), name))
    \/ /\ Has(s, b, "prefixItems") /\ IsList(s, Get(s, b, "prefixItems"))
       /\ \E i \in 1..ListLen(s, Get(s, b, "prefixItems")) :
            ~NormalFormKeys(s, ListGet(s, Get(s, b, "prefixItems"), i))

C9_CheckRecurses ==
    ( /\ calls = <<"check_normalized">> /\ stack = <<>>
      /\ IsDict(st, schema) /\ Has(st, schema, "anyOf") /\ IsList(st, Get(st, schema, "anyOf"))
      /\ \E i \in 1..Len(Branches(st, schema)) :
            IsDict(st, Branches(st, schema)[i])
                /\ HoldsNoNormalForm(st, Branches(st, schema)[i]) )
    => ~Ok(st)

\* C10: for a dict input with no $ref anywhere, normalize returns an empty
\* $defs and a top-level anyOf without a $ref branch
NoRefInput ==
    input.t = "cells" => \A i \in DOMAIN input.cells : ~HasRef(input.cells[i])

C10_NoRefsNoDefs ==
    (NormalizeReturned /\ IsDict(st, schema) /\ NoRefInput) =>
        /\ Keys(st, Get(st, result, "$defs")) = <<>>
        /\ \A i \in 1..Len(Branches(st, result)) : ~Has(st, Branches(st, result)[i], "$ref")

====
